---------------------------- MODULE Spec2Model ----------------------------
(***************************************************************************)
(* Model of cu-splitter: the matching engine (lib/matcher.py) and the      *)
(* document segmenter (lib/pdf_parser.py).                                 *)
(*                                                                         *)
(* Strings are sequences of one-character strings, so that upper(),        *)
(* strip(), accent removal and the similarity ratio are computed.          *)
(* Python lists are 0-based; positions here are 1-based, and position 0    *)
(* stands for Python's "no index" (-1) / None.                             *)
(***************************************************************************)
EXTENDS Integers, Sequences, FiniteSets, TLC

\* ------------------------------------------------------------------ bounds
MaxRecords == 2
MaxRoster  == 2

\* ------------------------------------------------------- string primitives
\* Characters in code-point order (str comparison, used by sorted()).
Alphabet == << " ", "'", "1", "2", "3", "A", "B", "C", "D", "E", "N", "R",
               "S", "T", "X", "Y", "a", "b", "c", "d", "e", "n", "r", "s",
               "t", "x", "y", "\\A", "\\a" >>
\* "\\A" stands for the accented capital (A grave), "\\a" for the accented
\* small letter.

CharOrd(c) == CHOOSE i \in 1..Len(Alphabet) : Alphabet[i] = c

\* str.upper() on one character
UpperChar(c) ==
    CASE c = "a"   -> "A"
      [] c = "b"   -> "B"
      [] c = "c"   -> "C"
      [] c = "d"   -> "D"
      [] c = "e"   -> "E"
      [] c = "n"   -> "N"
      [] c = "r"   -> "R"
      [] c = "s"   -> "S"
      [] c = "t"   -> "T"
      [] c = "x"   -> "X"
      [] c = "y"   -> "Y"
      [] c = "\\a" -> "\\A"
      [] OTHER     -> c

\* str.lower() on one character
LowerChar(c) ==
    CASE c = "A"   -> "a"
      [] c = "B"   -> "b"
      [] c = "C"   -> "c"
      [] c = "D"   -> "d"
      [] c = "E"   -> "e"
      [] c = "N"   -> "n"
      [] c = "R"   -> "r"
      [] c = "S"   -> "s"
      [] c = "T"   -> "t"
      [] c = "X"   -> "x"
      [] c = "Y"   -> "y"
      [] c = "\\A" -> "\\a"
      [] OTHER     -> c

\* characters with a case (str.title() starts a word after any other)
IsCased(c) == UpperChar(c) # c \/ LowerChar(c) # c

Upper(s) == [i \in 1..Len(s) |-> UpperChar(s[i])]

RECURSIVE LStrip(_)
LStrip(s) == IF s # << >> /\ Head(s) = " " THEN LStrip(Tail(s)) ELSE s

RECURSIVE RStrip(_)
RStrip(s) == IF s # << >> /\ s[Len(s)] = " "
             THEN RStrip(SubSeq(s, 1, Len(s) - 1)) ELSE s

\* str.strip()
Strip(s) == RStrip(LStrip(s))

\* NFKD decomposition followed by removal of the combining marks
StripAccentChar(c) ==
    CASE c = "\\A" -> "A"
      [] c = "\\a" -> "a"
      [] OTHER     -> c

\* _normalize: upper-case, strip, remove accents
_normalize(text) ==
    LET t == Strip(Upper(text))
    IN  [i \in 1..Len(t) |-> StripAccentChar(t[i])]

\* f"{a} {b}"
JoinSpace(a, b) == a \o << " " >> \o b

\* ---------------------------------------------- fuzz.token_sort_ratio
\* str.split(): maximal runs of non-blank characters
RECURSIVE SplitWs(_, _, _)
SplitWs(s, cur, acc) ==
    IF s = << >>
    THEN IF cur = << >> THEN acc ELSE Append(acc, cur)
    ELSE IF Head(s) = " "
         THEN SplitWs(Tail(s), << >>,
                      IF cur = << >> THEN acc ELSE Append(acc, cur))
         ELSE SplitWs(Tail(s), Append(cur, Head(s)), acc)

RECURSIVE StrLess(_, _)
StrLess(a, b) ==
    IF b = << >> THEN FALSE
    ELSE IF a = << >> THEN TRUE
    ELSE IF Head(a) = Head(b) THEN StrLess(Tail(a), Tail(b))
    ELSE CharOrd(Head(a)) < CharOrd(Head(b))

RECURSIVE InsertSorted(_, _)
InsertSorted(tok, toks) ==
    IF toks = << >> THEN << tok >>
    ELSE IF StrLess(tok, Head(toks)) THEN << tok >> \o toks
    ELSE << Head(toks) >> \o InsertSorted(tok, Tail(toks))

RECURSIVE SortTokens(_)
SortTokens(toks) ==
    IF toks = << >> THEN << >>
    ELSE InsertSorted(Head(toks), SortTokens(Tail(toks)))

RECURSIVE JoinTokens(_)
JoinTokens(toks) ==
    IF toks = << >> THEN << >>
    ELSE IF Len(toks) = 1 THEN Head(toks)
    ELSE Head(toks) \o << " " >> \o JoinTokens(Tail(toks))

\* length of the longest common subsequence
RECURSIVE LCS(_, _)
LCS(a, b) ==
    IF a = << >> \/ b = << >> THEN 0
    ELSE IF Head(a) = Head(b) THEN 1 + LCS(Tail(a), Tail(b))
    ELSE LET x == LCS(Tail(a), b)
             y == LCS(a, Tail(b))
         IN  IF x >= y THEN x ELSE y

\* int(round(x)) of x = num/den, ties to even
RoundHalfEven(num, den) ==
    LET q == num \div den
        r == num % den
    IN  IF 2 * r > den THEN q + 1
        ELSE IF 2 * r = den THEN q + (q % 2)
        ELSE q

\* Indel similarity of the two token-sorted strings, 0..100
token_sort_ratio(s1, s2) ==
    LET t1 == JoinTokens(SortTokens(SplitWs(s1, << >>, << >>)))
        t2 == JoinTokens(SortTokens(SplitWs(s2, << >>, << >>)))
        n  == Len(t1) + Len(t2)
    IN  IF Len(t1) = 0 \/ Len(t2) = 0 THEN 0
        ELSE RoundHalfEven(200 * LCS(t1, t2), n)


\* =====================================================================
\*                     lib/matcher.py : matching engine
\* =====================================================================
VARIABLES
    cu_records,                  \* argument: list of CURecord
    anagrafica,                  \* argument: list of AnagraficaRecord
    fuzzy_threshold,             \* argument
    results,                     \* list of MatchResult
    matched_anagrafica_indices,  \* set of claimed roster positions
    cf_index,                    \* upper-cased tax code -> roster position
    cu_pos,                      \* position of the next record of the loop
    ana_pos,                     \* position of the next entry of the last loop
    fuzzy_consulted,             \* record positions that took the else branch
    mpc                          \* "idle", "index", "records", "roster", "done"

matchVars == << cu_records, anagrafica, fuzzy_threshold, results,
                matched_anagrafica_indices, cf_index, cu_pos, ana_pos,
                fuzzy_consulted, mpc >>

\* the state of a run of parse_pdf (lib/pdf_parser.py)
VARIABLES
    doc,            \* the page texts of the opened document
    page_idx,       \* _find_cu_boundaries: next page to scan
    boundaries,     \* list of (page_index, anno)
    seen_pages,     \* pages that already gave a boundary
    raw_segments,   \* phase 1
    merged,         \* phase 2
    records,        \* phase 3, the returned list
    seg_pos,        \* position of the next element of the running loop
    ppc             \* "idle", "boundaries", "raw", "merge", "extract", "done"

parseVars == << doc, page_idx, boundaries, seen_pages, raw_segments, merged,
                records, seg_pos, ppc >>

\* one evaluation of the property CURecord.filename (lib/pdf_parser.py)
VARIABLES
    f_rec,          \* the CURecord asked for its file name
    f_name,         \* the string returned
    fpc             \* "idle", "ask", "done"

fileVars == << f_rec, f_name, fpc >>

\* one call of load_anagrafica (lib/matcher.py), after the file was read
VARIABLES
    l_df,           \* the rows of the data frame
    l_cols,         \* the roster columns the data frame has
    l_pos,          \* position of the next row of the loop
    l_records,      \* the list being built and returned
    l_kept,         \* the positions of the rows with an entry in l_records
    lpc             \* "idle", "rows", "done"

loadVars == << l_df, l_cols, l_pos, l_records, l_kept, lpc >>

\* a caller that runs match_cu_with_anagrafica again on the same lists
VARIABLES
    returned,       \* the calls so far: threshold and list returned
    held,           \* the list the caller holds, whose emails it may edit
    edits           \* for each edit, the number of calls made before it

callerVars == << returned, held, edits >>

\* the session of the user interface (app.py); each step is one run of
\* the script, started by one action of the user
VARIABLES
    a_uploaded,       \* the file in the PDF uploader, "none" if empty
    a_pdf_bytes,      \* st.session_state.pdf_bytes
    a_cu_records,     \* st.session_state.cu_records
    a_parsed_from,    \* the file a_cu_records was parsed from
    a_match_results,  \* st.session_state.match_results
    a_confirmed,      \* st.session_state.matching_confirmed
    a_send_logs,      \* st.session_state.send_logs
    a_exports,        \* the calls of export_single_cu of the last run
    a_event,          \* the action of the user that started the last run
    a_sends,          \* the number of runs of "Invia tutte" so far
    a_recent          \* "analyze", "match", "confirm": the buttons pressed
                      \* so far, in the order of their last press

appVars == << a_uploaded, a_pdf_bytes, a_cu_records, a_parsed_from,
              a_match_results, a_confirmed, a_send_logs, a_exports,
              a_event, a_sends, a_recent >>

vars == << matchVars, parseVars, fileVars, loadVars, callerVars, appVars >>

\* what a step of one component leaves alone
exceptMatch == << parseVars, fileVars, loadVars, callerVars, appVars >>
exceptParse == << matchVars, fileVars, loadVars, callerVars, appVars >>
exceptFile  == << matchVars, parseVars, loadVars, callerVars, appVars >>
exceptLoad  == << matchVars, parseVars, fileVars, callerVars, appVars >>
exceptCall  == << parseVars, fileVars, loadVars, appVars >>
exceptApp   == << matchVars, parseVars, fileVars, loadVars, callerVars >>

MATCHED              == "matched"
CU_UNMATCHED         == "cu_unmatched"
ANAGRAFICA_UNMATCHED == "anagrafica_unmatched"

DefaultThreshold == 80

\* CURecord
CURecord(index, start_page, end_page, anno, cf, cognome, nome, raw_text) ==
    [index |-> index, start_page |-> start_page, end_page |-> end_page,
     anno |-> anno, codice_fiscale |-> cf, cognome |-> cognome,
     nome |-> nome, raw_text |-> raw_text]

\* AnagraficaRecord
AnagraficaRecord(cognome, nome, cf, email) ==
    [cognome |-> cognome, nome |-> nome, codice_fiscale |-> cf,
     email |-> email]

\* AnagraficaRecord.full_name_normalized
full_name_normalized(a) == _normalize(JoinSpace(a.cognome, a.nome))

\* MatchResult; anagrafica is the roster position of the referenced entry
MatchResult(cu, ana, status, email, score, method) ==
    [cu |-> cu, anagrafica |-> ana, status |-> status, email |-> email,
     match_score |-> score, match_method |-> method]

\* ------------------------------------------------------------ input sets
CF_R1  == << "R", "1" >>
CF_r1  == << "r", "1" >>
CF_S2  == << "S", "2" >>
CF_T3  == << "T", "3" >>

\* (tax code, surname, given name) of the records offered to the engine
CuPeople ==
    { << CF_r1, << "A", "B" >>, << "C", "D" >> >>,
      << << >>, << "A", "B" >>, << "C", "E" >> >>,
      << << >>, << "C", "D" >>, << "\\A", "B" >> >>,
      << << >>, << "A", "B" >>, << "C" >> >>,
      << CF_S2, << "A", "B", "C", "D" >>, << "E", "X", "Y" >> >>,
      << << >>, << >>, << >> >> }

\* roster entries as load_anagrafica returns them (upper-cased fields)
RosterPeople ==
    { AnagraficaRecord(<< "A", "B" >>, << "C", "D" >>, CF_R1, "e1"),
      AnagraficaRecord(<< "\\A", "B" >>, << "C", "D" >>, << >>, "e2"),
      AnagraficaRecord(<< "X", "Y" >>, << >>, CF_R1, ""),
      AnagraficaRecord(<< >>, << >>, CF_T3, "e3"),
      AnagraficaRecord(<< "A", "B", "C", "D" >>, << "E", "X", "A" >>, << >>,
                       "e5") }

Thresholds == { 0, DefaultThreshold, 89, 101 }

SeqsUpTo(set, n) == UNION { [1..k -> set] : k \in 0..n }

MkRecords(people) ==
    [i \in 1..Len(people) |->
        CURecord(i, i - 1, i - 1, "2025", people[i][1], people[i][2],
                 people[i][3], << >>)]

\* ------------------------------------------------------ the run, by steps
MatchInit ==
    /\ \E people \in SeqsUpTo(CuPeople, MaxRecords) :
          cu_records = MkRecords(people)
    /\ anagrafica \in SeqsUpTo(RosterPeople, MaxRoster)
    /\ fuzzy_threshold \in Thresholds
    /\ results = << >>
    /\ matched_anagrafica_indices = {}
    /\ cf_index = << >>
    /\ cu_pos = 1
    /\ ana_pos = 1
    /\ fuzzy_consulted = {}
    /\ mpc = "index"

\* cf_index after the first idx entries: a later entry overwrites an
\* earlier one with the same upper-cased tax code
RECURSIVE CfIndexUpTo(_, _)
CfIndexUpTo(roster, idx) ==
    IF idx = 0 THEN << >>
    ELSE LET prev == CfIndexUpTo(roster, idx - 1)
             a    == roster[idx]
         IN  IF a.codice_fiscale # << >>
             THEN (Upper(a.codice_fiscale) :> idx) @@ prev
             ELSE prev

BuildCfIndex ==
    /\ mpc = "index"
    /\ cf_index' = CfIndexUpTo(anagrafica, Len(anagrafica))
    /\ mpc' = "records"
    /\ UNCHANGED << cu_records, anagrafica, fuzzy_threshold, results,
                    matched_anagrafica_indices, cu_pos, ana_pos,
                    fuzzy_consulted >>
    /\ UNCHANGED exceptMatch

\* variant: the record's tax code is looked up as written
CuCfAsWritten(cu) == cu.codice_fiscale

\* cu_cf = cu.codice_fiscale.upper() if cu.codice_fiscale else ""
CuCf(cu) == IF cu.codice_fiscale # << >> THEN Upper(cu.codice_fiscale)
            ELSE << >>

\* the condition of the primary branch
ExactHit(cu, index) == CuCf(cu) # << >> /\ CuCf(cu) \in DOMAIN index

NoBest == [score |-> 0, idx |-> 0, method |-> ""]

\* variant: an equal score replaces the current best too
ReplacesOnTie(score, best_score) == score >= best_score

\* does a candidate score replace the current best?
Replaces(score, best_score) == score > best_score

\* the scan of the roster, from position idx on
RECURSIVE FuzzyScan(_, _, _, _, _)
FuzzyScan(cu_name, roster, claimed, idx, best) ==
    IF idx > Len(roster) THEN best
    ELSE IF idx \in claimed
         THEN FuzzyScan(cu_name, roster, claimed, idx + 1, best)
         ELSE LET score == token_sort_ratio(cu_name,
                                            full_name_normalized(roster[idx]))
              IN  IF Replaces(score, best.score)
                  THEN FuzzyScan(cu_name, roster, claimed, idx + 1,
                                 [score |-> score, idx |-> idx,
                                  method |-> "Nome (fuzzy)"])
                  ELSE FuzzyScan(cu_name, roster, claimed, idx + 1, best)

\* variant: the best is compared with the default, not with the argument
BelowDefault(best_score, threshold) == best_score < DefaultThreshold

\* variant: a best equal to the threshold is rejected too
BelowOrAtThreshold(best_score, threshold) == best_score <= threshold

\* variant: the best of the scan is never rejected
BelowNever(best_score, threshold) == FALSE

\* is the best of the scan rejected?
BelowThreshold(best_score, threshold) == best_score < threshold

\* the whole else branch: scan, then threshold
FuzzyBest(cu, roster, claimed, threshold) ==
    LET cu_name == _normalize(JoinSpace(cu.cognome, cu.nome))
    IN  IF Strip(cu_name) = << >> THEN NoBest
        ELSE LET best == FuzzyScan(cu_name, roster, claimed, 1, NoBest)
             IN  IF BelowThreshold(best.score, threshold) THEN NoBest
                 ELSE best

\* the result appended for a record, given the best of the two branches
ResultOf(cu, best, roster) ==
    IF best.idx >= 1
    THEN MatchResult(cu, best.idx, MATCHED, roster[best.idx].email,
                     best.score, best.method)
    ELSE MatchResult(cu, 0, CU_UNMATCHED, "", 0, "")

\* the claimed set after a record
ClaimAfter(claimed, best) ==
    IF best.idx >= 1 THEN claimed \cup { best.idx } ELSE claimed

\* the tail of the loop body: claim and append
Emit(cu, best) ==
    /\ matched_anagrafica_indices' =
           ClaimAfter(matched_anagrafica_indices, best)
    /\ results' = Append(results, ResultOf(cu, best, anagrafica))

\* the position the primary branch selects
ExactIdx(cu, index) == index[CuCf(cu)]

\* variant: the primary branch is taken only for an entry not yet claimed
ExactBranchUnclaimed(cu, index, claimed) ==
    ExactHit(cu, index) /\ ExactIdx(cu, index) \notin claimed

\* is the primary branch taken? (the claimed set plays no part)
ExactBranch(cu, index, claimed) == ExactHit(cu, index)

\* the best of the two branches for one record
BestFor(cu, roster, index, claimed, threshold) ==
    IF ExactBranch(cu, index, claimed)
    THEN [score |-> 100, idx |-> ExactIdx(cu, index),
          method |-> "Codice Fiscale"]
    ELSE FuzzyBest(cu, roster, claimed, threshold)

ExactMatch ==
    /\ mpc = "records"
    /\ cu_pos <= Len(cu_records)
    /\ LET cu == cu_records[cu_pos]
       IN  /\ ExactBranch(cu, cf_index, matched_anagrafica_indices)
           /\ Emit(cu, [score |-> 100, idx |-> ExactIdx(cu, cf_index),
                        method |-> "Codice Fiscale"])
    /\ cu_pos' = cu_pos + 1
    /\ UNCHANGED << cu_records, anagrafica, fuzzy_threshold, cf_index,
                    ana_pos, fuzzy_consulted, mpc >>
    /\ UNCHANGED exceptMatch

FuzzyMatch ==
    /\ mpc = "records"
    /\ cu_pos <= Len(cu_records)
    /\ LET cu == cu_records[cu_pos]
       IN  /\ ~ExactBranch(cu, cf_index, matched_anagrafica_indices)
           /\ Emit(cu, FuzzyBest(cu, anagrafica, matched_anagrafica_indices,
                                 fuzzy_threshold))
    /\ fuzzy_consulted' = fuzzy_consulted \cup { cu_pos }
    /\ cu_pos' = cu_pos + 1
    /\ UNCHANGED << cu_records, anagrafica, fuzzy_threshold, cf_index,
                    ana_pos, mpc >>
    /\ UNCHANGED exceptMatch

RecordsDone ==
    /\ mpc = "records"
    /\ cu_pos > Len(cu_records)
    /\ mpc' = "roster"
    /\ UNCHANGED << cu_records, anagrafica, fuzzy_threshold, results,
                    matched_anagrafica_indices, cf_index, cu_pos, ana_pos,
                    fuzzy_consulted >>
    /\ UNCHANGED exceptMatch

\* variant: the placeholder record is given the first page
SyntheticCuFirstPage(a) ==
    CURecord(-1, 0, 0, "", a.codice_fiscale, a.cognome, a.nome, << >>)

\* the placeholder CURecord of a roster entry without record
SyntheticCu(a) ==
    CURecord(-1, -1, -1, "", a.codice_fiscale, a.cognome, a.nome, << >>)

\* variant: the closing loop forgets the claimed set
NotClaimedIgnored(idx, claimed) == TRUE

\* the test of the closing loop
NotClaimed(idx, claimed) == idx \notin claimed

\* one iteration of the closing loop over the roster
RosterStep ==
    /\ mpc = "roster"
    /\ ana_pos <= Len(anagrafica)
    /\ LET a == anagrafica[ana_pos]
       IN  results' =
             IF NotClaimed(ana_pos, matched_anagrafica_indices)
             THEN Append(results,
                    MatchResult(SyntheticCu(a), ana_pos,
                                ANAGRAFICA_UNMATCHED, a.email, 0, ""))
             ELSE results
    /\ ana_pos' = ana_pos + 1
    /\ UNCHANGED << cu_records, anagrafica, fuzzy_threshold,
                    matched_anagrafica_indices, cf_index, cu_pos,
                    fuzzy_consulted, mpc >>
    /\ UNCHANGED exceptMatch

ReturnResults ==
    /\ mpc = "roster"
    /\ ana_pos > Len(anagrafica)
    /\ mpc' = "done"
    /\ UNCHANGED << cu_records, anagrafica, fuzzy_threshold, results,
                    matched_anagrafica_indices, cf_index, cu_pos, ana_pos,
                    fuzzy_consulted >>
    /\ UNCHANGED exceptMatch

\* ------------------------------------------- the run as one function
\* the record loop from position pos on; st = [results, claimed]
RECURSIVE RunRecords(_, _, _, _, _, _)
RunRecords(recs, roster, index, threshold, pos, st) ==
    IF pos > Len(recs) THEN st
    ELSE LET best == BestFor(recs[pos], roster, index, st.claimed,
                             threshold)
         IN  RunRecords(recs, roster, index, threshold, pos + 1,
                [results |-> Append(st.results,
                                    ResultOf(recs[pos], best, roster)),
                 claimed |-> ClaimAfter(st.claimed, best)])

\* the closing loop from position idx on
RECURSIVE RunRoster(_, _, _)
RunRoster(roster, claimed, idx) ==
    IF idx > Len(roster) THEN << >>
    ELSE ( IF NotClaimed(idx, claimed)
           THEN << MatchResult(SyntheticCu(roster[idx]), idx,
                               ANAGRAFICA_UNMATCHED, roster[idx].email,
                               0, "") >>
           ELSE << >> ) \o RunRoster(roster, claimed, idx + 1)

match_cu_with_anagrafica(recs, roster, threshold) ==
    LET index == CfIndexUpTo(roster, Len(roster))
        st    == RunRecords(recs, roster, index, threshold, 1,
                            [results |-> << >>, claimed |-> {}])
    IN  st.results \o RunRoster(roster, st.claimed, 1)

MatchNext == BuildCfIndex \/ ExactMatch \/ FuzzyMatch \/ RecordsDone
             \/ RosterStep \/ ReturnResults

\* =====================================================================
\*                  lib/pdf_parser.py : document segmenter
\* =====================================================================
\* A page text is a sequence of tokens: words, the blank " ", the line
\* break "NL".  Tokens that follow each other without a blank or line break
\* are written without a gap in the text ("UNICA" "2025" is "UNICA2025").
\* Page indices are 0-based as in the code; page p is doc[p + 1].

MaxPages == 4

IsWs(tok) == tok \in { " ", "NL" }

\* CERTIFICAZIONE, any case
IsCertWord(tok) == tok \in { "CERTIFICAZIONE", "Certificazione" }
\* C\s*E\s*R\s*T...: the word with or without blanks between the letters
IsCertSpaced(tok) == IsCertWord(tok) \/ tok = "C E R T I F I C A Z I O N E"
IsUnicaWord(tok) == tok \in { "UNICA", "Unica" }
IsUnicaSpaced(tok) == IsUnicaWord(tok) \/ tok = "U N I C A"
\* \d{4}
IsYear(tok) == tok \in { "2024", "2025" }

\* first position >= i that holds no white space (Len + 1 if none)
RECURSIVE SkipWs(_, _)
SkipWs(t, i) == IF i <= Len(t) /\ IsWs(t[i]) THEN SkipWs(t, i + 1) ELSE i

\* the words CU_START_PATTERNS[n] accepts (n = 0, 1)
CertOk(n, tok) == IF n = 0 THEN IsCertWord(tok) ELSE IsCertSpaced(tok)
UnicaOk(n, tok) == IF n = 0 THEN IsUnicaWord(tok) ELSE IsUnicaSpaced(tok)

\* <cert>\s+<unica>\s*(\d{4}) of pattern n matched at position i: the year,
\* or "" if there is no match
HeaderAt(t, i, n) ==
    IF ~CertOk(n, t[i]) THEN ""
    ELSE LET j == SkipWs(t, i + 1)
         IN  IF j = i + 1 \/ j > Len(t) THEN ""
             ELSE IF ~UnicaOk(n, t[j]) THEN ""
             ELSE LET k == SkipWs(t, j + 1)
                  IN  IF k > Len(t) THEN ""
                      ELSE IF IsYear(t[k]) THEN t[k] ELSE ""

\* pattern.search(text): group(1) of the leftmost match, "" if none
SearchHeader(t, n) ==
    LET hits == { i \in 1..Len(t) : HeaderAt(t, i, n) # "" }
    IN  IF hits = {} THEN ""
        ELSE HeaderAt(t, CHOOSE i \in hits : \A h \in hits : i <= h, n)

\* CU_START_PATTERNS[0] and [1]
SearchPattern0(t) == SearchHeader(t, 0)
SearchPattern1(t) == SearchHeader(t, 1)

\* text.split("\n")
RECURSIVE SplitLines(_, _, _)
SplitLines(t, cur, acc) ==
    IF t = << >> THEN Append(acc, cur)
    ELSE IF Head(t) = "NL" THEN SplitLines(Tail(t), << >>, Append(acc, cur))
    ELSE SplitLines(Tail(t), Append(cur, Head(t)), acc)

\* " ".join(lines)
RECURSIVE JoinLines(_)
JoinLines(lines) ==
    IF lines = << >> THEN << >>
    ELSE IF Len(lines) = 1 THEN Head(lines)
    ELSE Head(lines) \o << " " >> \o JoinLines(Tail(lines))

Min(a, b) == IF a <= b THEN a ELSE b

\* the line scan of the fallback: first line that holds CERTIFICAZIONE and
\* whose window of four lines matches the header; "" if none
LineScan(t) ==
    LET lines == SplitLines(t, << >>, << >>)
        Window(i) == JoinLines(SubSeq(lines, i, Min(i + 3, Len(lines))))
        hits == { i \in 1..Len(lines) :
                    /\ \E k \in 1..Len(lines[i]) : IsCertWord(lines[i][k])
                    /\ SearchPattern0(Window(i)) # "" }
    IN  IF hits = {} THEN ""
        ELSE SearchPattern0(Window(CHOOSE i \in hits : \A h \in hits : i <= h))

\* variant: the pattern loop does not stop at the first pattern that matches
PageBoundariesNoBreak(p, text) ==
    (IF SearchPattern0(text) # ""
     THEN << [page |-> p, anno |-> SearchPattern0(text)] >> ELSE << >>)
    \o
    (IF SearchPattern1(text) # ""
     THEN << [page |-> p, anno |-> SearchPattern1(text)] >> ELSE << >>)

\* the boundaries page p contributes: the first pattern that matches, else
\* the line scan
PageBoundaries(p, text) ==
    IF SearchPattern0(text) # ""
    THEN << [page |-> p, anno |-> SearchPattern0(text)] >>
    ELSE IF SearchPattern1(text) # ""
    THEN << [page |-> p, anno |-> SearchPattern1(text)] >>
    ELSE IF LineScan(text) # ""
    THEN << [page |-> p, anno |-> LineScan(text)] >>
    ELSE << >>

\* one iteration of the page loop of _find_cu_boundaries
BoundaryStep ==
    /\ ppc = "boundaries"
    /\ page_idx < Len(doc)
    /\ IF page_idx \in seen_pages
       THEN UNCHANGED << boundaries, seen_pages >>
       ELSE LET found == PageBoundaries(page_idx, doc[page_idx + 1])
            IN  /\ boundaries' = boundaries \o found
                /\ seen_pages' = IF found = << >> THEN seen_pages
                                 ELSE seen_pages \cup { page_idx }
    /\ page_idx' = page_idx + 1
    /\ UNCHANGED << doc, raw_segments, merged, records, seg_pos, ppc >>
    /\ UNCHANGED exceptParse

\* ------------------------------------------- _extract_percipiente_cf
\* tokens that match CF_PATTERN, and the tax code each one spells
IsCfToken(tok) == tok \in { "cf:R1", "cf:S2", "cf:T3" }

CfOfToken(tok) ==
    CASE tok = "cf:R1" -> CF_R1
      [] tok = "cf:S2" -> CF_S2
      [] tok = "cf:T3" -> CF_T3

\* tokens that are not made of word characters only
IsNonWord(tok) == IsWs(tok) \/ tok = ","

\* CF_PATTERN matches at position i: a tax code between word boundaries
CfAt(t, i) ==
    /\ IsCfToken(t[i])
    /\ i = 1 \/ IsNonWord(t[i - 1])
    /\ i = Len(t) \/ IsNonWord(t[i + 1])

\* positions of the matches of CF_PATTERN at or after position from
CfPositions(t, from) == { i \in from..Len(t) : CfAt(t, i) }

MinOf(set) == CHOOSE x \in set : \A y \in set : x <= y

\* the position of the last token of the leftmost match of
\* PERCIPIENTE_SECTION_PATTERNS[n] (n = 0..4), 0 if the pattern does not match
SectionEnd(t, n) ==
    LET words ==
          CASE n = 0 -> { "DATI RELATIVI AL DIPENDENTE" }
            [] n = 1 -> { "DATI ANAGRAFICI DEL PERCIPIENTE" }
            [] n = 2 -> { "DATI RELATIVI AL PERCIPIENTE" }
            [] n = 3 -> { "DATI RELATIVI AL DIPENDENTE" }
            [] n = 4 -> { "DATI ANAGRAFICI",
                          "DATI ANAGRAFICI DEL PERCIPIENTE" }
        \* pattern 3 goes on with ,?\s*\n?\s*PENSIONATO
        Tail3(i) == LET j == IF i + 1 <= Len(t) /\ t[i + 1] = ","
                             THEN i + 2 ELSE i + 1
                        k == SkipWs(t, j)
                    IN  IF k <= Len(t) /\ t[k] = "PENSIONATO" THEN k ELSE 0
        EndAt(i) == IF n = 3 THEN Tail3(i) ELSE i
        hits == { i \in 1..Len(t) : t[i] \in words /\ EndAt(i) # 0 }
    IN  IF hits = {} THEN 0 ELSE EndAt(MinOf(hits))

\* variant: strategy 1 ends at the first section header that matches
RECURSIVE CfAfterFirstSection(_, _)
CfAfterFirstSection(t, n) ==
    IF n > 4 THEN << >>
    ELSE LET e == SectionEnd(t, n)
         IN  IF e # 0
             THEN ( IF CfPositions(t, e + 1) # {}
                    THEN CfOfToken(t[MinOf(CfPositions(t, e + 1))])
                    ELSE << >> )
             ELSE CfAfterFirstSection(t, n + 1)

\* strategy 1 from pattern n on: the first tax code after the first section
\* header that has one after it; << >> if no pattern yields one
RECURSIVE CfAfterSection(_, _)
CfAfterSection(t, n) ==
    IF n > 4 THEN << >>
    ELSE LET e == SectionEnd(t, n)
         IN  IF e # 0 /\ CfPositions(t, e + 1) # {}
             THEN CfOfToken(t[MinOf(CfPositions(t, e + 1))])
             ELSE CfAfterSection(t, n + 1)

\* strategy 2: the second tax code of the text, or the only one
CfByPosition(t) ==
    LET all == CfPositions(t, 1)
    IN  IF Cardinality(all) >= 2
        THEN CfOfToken(t[MinOf(all \ { MinOf(all) })])
        ELSE IF Cardinality(all) = 1 THEN CfOfToken(t[MinOf(all)])
        ELSE << >>

_extract_percipiente_cf(t) ==
    IF CfAfterSection(t, 0) # << >> THEN CfAfterSection(t, 0)
    ELSE CfByPosition(t)

\* ------------------------------------------------------------ parse_pdf
\* variant: a segment runs up to and including the next boundary page
SegmentEndOverlap(bs, i, npages) ==
    IF i + 1 <= Len(bs) THEN bs[i + 1].page ELSE npages - 1

\* variant: the last segment runs one page past the document
SegmentEndPastLast(bs, i, npages) ==
    IF i + 1 <= Len(bs) THEN bs[i + 1].page - 1 ELSE npages

\* end page of the segment of boundary i (1-based position in bs)
SegmentEnd(bs, i, npages) ==
    IF i + 1 <= Len(bs) THEN bs[i + 1].page - 1 ELSE npages - 1

\* the texts of pages from..to, each followed by a line break
RECURSIVE PagesText(_, _, _)
PagesText(d, from, to) ==
    IF from > to \/ from + 1 > Len(d) THEN << >>
    ELSE d[from + 1] \o << "NL" >> \o PagesText(d, from + 1, to)

\* variant: a segment without tax code is merged as well
MergeOneEmptyToo(m, seg) ==
    IF m # << >> /\ m[Len(m)].cf = seg.cf
    THEN [m EXCEPT ![Len(m)].end_page = seg.end_page,
                   ![Len(m)].text = @ \o seg.text]
    ELSE Append(m, seg)

\* variant: a preceding segment without tax code adopts the next one's
MergeOneAdoptEmpty(m, seg) ==
    IF m # << >> /\ seg.cf # << >>
       /\ (m[Len(m)].cf = seg.cf \/ m[Len(m)].cf = << >>)
    THEN [m EXCEPT ![Len(m)].end_page = seg.end_page,
                   ![Len(m)].cf = seg.cf,
                   ![Len(m)].text = @ \o seg.text]
    ELSE Append(m, seg)

\* one iteration of the merge loop
MergeOne(m, seg) ==
    IF m # << >> /\ seg.cf # << >> /\ m[Len(m)].cf = seg.cf
    THEN [m EXCEPT ![Len(m)].end_page = seg.end_page,
                   ![Len(m)].text = @ \o seg.text]
    ELSE Append(m, seg)

\* the whole merge loop, started from m
RECURSIVE MergeFrom(_, _)
MergeFrom(m, segs) ==
    IF segs = << >> THEN m
    ELSE MergeFrom(MergeOne(m, Head(segs)), Tail(segs))

MergePass(segs) == MergeFrom(<< >>, segs)

\* ------------------------------------------------------------ input sets
PgCover == << "CERTIFICAZIONE", " ", "UNICA", " ", "2025", "NL",
              "DATI RELATIVI AL DIPENDENTE", "NL", "cf:R1" >>
PgData == << "Certificazione", "NL", "Unica", "2025", "NL",
             "cf:S2", "NL", "cf:R1" >>
PgSpaced == << "cf:S2", " ", "C E R T I F I C A Z I O N E", " ",
               "U N I C A", "2024", "NL", "cf:R1", "NL", "DATI ANAGRAFICI",
               "NL", "cf:T3", "NL", "DATI RELATIVI AL PERCIPIENTE" >>
PgUnreadable == << "CERTIFICAZIONE", " ", "UNICA", "NL", "2025", "NL",
                   "OTHER" >>
PgSectionNoCf == << "cf:T3", "NL", "CERTIFICAZIONE", " ", "UNICA", " ",
                    "2024", "NL", "DATI RELATIVI AL DIPENDENTE", ",", " ",
                    "PENSIONATO" >>
PgPlain == << "OTHER", "NL", "OTHER" >>
PgIssuer == << "OTHER", "NL", "cf:S2" >>
PgBroken == << "CERTIFICAZIONE", "NL", "OTHER", " ", "UNICA", " ", "2025",
               "NL", "UNICA2025" >>

Pages == { PgCover, PgData, PgSpaced, PgUnreadable, PgSectionNoCf,
           PgPlain, PgIssuer, PgBroken }

\* boundaries at pages 0, 3, 7 of 9 pages, tax codes "", R1, R1
ExampleDoc == << PgUnreadable, PgPlain, PgPlain, PgCover, PgPlain, PgPlain,
                 PgPlain, PgData, PgPlain >>

\* what _extract_nome_cognome may return (its text analysis is not modelled:
\* any of these pairs may come out of any text)
ExtractedNames == { << << >>, << >> >>, << << "A", "B" >>, << "C", "D" >> >> }

MatchIdle ==
    /\ cu_records = << >>
    /\ anagrafica = << >>
    /\ fuzzy_threshold = DefaultThreshold
    /\ results = << >>
    /\ matched_anagrafica_indices = {}
    /\ cf_index = << >>
    /\ cu_pos = 1
    /\ ana_pos = 1
    /\ fuzzy_consulted = {}
    /\ mpc = "idle"

ParseIdle ==
    /\ doc = << >>
    /\ page_idx = 0
    /\ boundaries = << >>
    /\ seen_pages = {}
    /\ raw_segments = << >>
    /\ merged = << >>
    /\ records = << >>
    /\ seg_pos = 1
    /\ ppc = "idle"

FileIdle ==
    /\ f_rec = << >>
    /\ f_name = << >>
    /\ fpc = "idle"

LoadIdle ==
    /\ l_df = << >>
    /\ l_cols = {}
    /\ l_pos = 1
    /\ l_records = << >>
    /\ l_kept = << >>
    /\ lpc = "idle"

CallerIdle ==
    /\ returned = << >>
    /\ held = << >>
    /\ edits = << >>

\* the session state of a new session
AppIdle ==
    /\ a_uploaded = "none"
    /\ a_pdf_bytes = "none"
    /\ a_cu_records = << >>
    /\ a_parsed_from = "none"
    /\ a_match_results = << >>
    /\ a_confirmed = FALSE
    /\ a_send_logs = << >>
    /\ a_exports = {}
    /\ a_event = "start"
    /\ a_sends = 0
    /\ a_recent = << >>

ParseInit ==
    /\ doc \in SeqsUpTo(Pages, MaxPages) \cup { ExampleDoc }
    /\ page_idx = 0
    /\ boundaries = << >>
    /\ seen_pages = {}
    /\ raw_segments = << >>
    /\ merged = << >>
    /\ records = << >>
    /\ seg_pos = 1
    /\ ppc = "boundaries"

\* if not boundaries: return []
ReturnEmpty ==
    /\ ppc = "boundaries"
    /\ page_idx = Len(doc)
    /\ boundaries = << >>
    /\ records' = << >>
    /\ ppc' = "done"
    /\ UNCHANGED << doc, page_idx, boundaries, seen_pages, raw_segments,
                    merged, seg_pos >>
    /\ UNCHANGED exceptParse

StartSegments ==
    /\ ppc = "boundaries"
    /\ page_idx = Len(doc)
    /\ boundaries # << >>
    /\ seg_pos' = 1
    /\ ppc' = "raw"
    /\ UNCHANGED << doc, page_idx, boundaries, seen_pages, raw_segments,
                    merged, records >>
    /\ UNCHANGED exceptParse

\* phase 1, one boundary
RawSegmentStep ==
    /\ ppc = "raw"
    /\ seg_pos <= Len(boundaries)
    /\ LET start_page == boundaries[seg_pos].page
           end_page   == SegmentEnd(boundaries, seg_pos, Len(doc))
           full_text  == PagesText(doc, start_page, end_page)
       IN  raw_segments' = Append(raw_segments,
              [start_page |-> start_page, end_page |-> end_page,
               anno |-> boundaries[seg_pos].anno,
               cf |-> _extract_percipiente_cf(full_text),
               text |-> full_text])
    /\ seg_pos' = seg_pos + 1
    /\ UNCHANGED << doc, page_idx, boundaries, seen_pages, merged, records,
                    ppc >>
    /\ UNCHANGED exceptParse

StartMerge ==
    /\ ppc = "raw"
    /\ seg_pos > Len(boundaries)
    /\ seg_pos' = 1
    /\ ppc' = "merge"
    /\ UNCHANGED << doc, page_idx, boundaries, seen_pages, raw_segments,
                    merged, records >>
    /\ UNCHANGED exceptParse

\* phase 2, one raw segment
MergeStep ==
    /\ ppc = "merge"
    /\ seg_pos <= Len(raw_segments)
    /\ merged' = MergeOne(merged, raw_segments[seg_pos])
    /\ seg_pos' = seg_pos + 1
    /\ UNCHANGED << doc, page_idx, boundaries, seen_pages, raw_segments,
                    records, ppc >>
    /\ UNCHANGED exceptParse

StartExtract ==
    /\ ppc = "merge"
    /\ seg_pos > Len(raw_segments)
    /\ seg_pos' = 1
    /\ ppc' = "extract"
    /\ UNCHANGED << doc, page_idx, boundaries, seen_pages, raw_segments,
                    merged, records >>
    /\ UNCHANGED exceptParse

\* phase 3, one merged segment
ExtractStep ==
    /\ ppc = "extract"
    /\ seg_pos <= Len(merged)
    /\ \E names \in ExtractedNames :
          LET m == merged[seg_pos]
          IN  records' = Append(records,
                 CURecord(seg_pos, m.start_page, m.end_page, m.anno, m.cf,
                          names[1], names[2], m.text))
    /\ seg_pos' = seg_pos + 1
    /\ UNCHANGED << doc, page_idx, boundaries, seen_pages, raw_segments,
                    merged, ppc >>
    /\ UNCHANGED exceptParse

ReturnRecords ==
    /\ ppc = "extract"
    /\ seg_pos > Len(merged)
    /\ ppc' = "done"
    /\ UNCHANGED << doc, page_idx, boundaries, seen_pages, raw_segments,
                    merged, records, seg_pos >>
    /\ UNCHANGED exceptParse

ParseNext == BoundaryStep \/ ReturnEmpty \/ StartSegments \/ RawSegmentStep
             \/ StartMerge \/ MergeStep \/ StartExtract \/ ExtractStep
             \/ ReturnRecords

\* ------------------------------------------------------- specifications
\* a run of match_cu_with_anagrafica on arbitrary arguments
\* =====================================================================
\*             lib/pdf_parser.py : CURecord.filename
\* =====================================================================
\* str.replace(" ", "")
RECURSIVE RemoveSpaces(_)
RemoveSpaces(s) ==
    IF s = << >> THEN << >>
    ELSE IF Head(s) = " " THEN RemoveSpaces(Tail(s))
    ELSE << Head(s) >> \o RemoveSpaces(Tail(s))

\* variant: str.capitalize(), first character upper, the rest lower
TitleCapitalize(s) ==
    [ i \in 1..Len(s) |-> IF i = 1 THEN UpperChar(s[i])
                          ELSE LowerChar(s[i]) ]

\* str.title(): a cased character is made upper case when the character
\* before it is not cased (or there is none), lower case otherwise
Title(s) ==
    [ i \in 1..Len(s) |-> IF i > 1 /\ IsCased(s[i - 1])
                          THEN LowerChar(s[i])
                          ELSE UpperChar(s[i]) ]

Sconosciuto == << "S", "c", "o", "n", "o", "s", "c", "i", "u", "t", "o" >>
CfMancante  == << "C", "F", "M", "A", "N", "C", "A", "N", "T", "E" >>

\* the characters of the year of a record
AnnoChars(anno) ==
    CASE anno = "2024" -> << "2", "0", "2", "4" >>
      [] anno = "2025" -> << "2", "0", "2", "5" >>
      [] OTHER         -> << >>

\* one name part of the file name
NamePart(name) ==
    IF name # << >> THEN Title(RemoveSpaces(Strip(name))) ELSE Sconosciuto

filename(rec) ==
    LET cognome == NamePart(rec.cognome)
        nome    == NamePart(rec.nome)
        cf      == IF rec.codice_fiscale # << >>
                   THEN Upper(rec.codice_fiscale) ELSE CfMancante
    IN  << "C", "U" >> \o AnnoChars(rec.anno) \o << "_" >> \o cognome
           \o << "_" >> \o nome \o << "_" >> \o cf
           \o << ".", "p", "d", "f" >>

\* the names a record may hold when its file name is asked
FileNames == { << >>, << "A", "B" >>, << "a", "b", " ", "C", "D" >>,
               << " " >>, << "D", "'", "A", "B" >>, << "\\a", "B" >> }
FileIndexes == { 1, 2 }

FileInit ==
    /\ \E i \in FileIndexes, anno \in { "", "2024", "2025" },
          cf \in { << >>, CF_R1, CF_r1, CF_S2 },
          c \in FileNames, n \in FileNames :
          f_rec = CURecord(i, i - 1, i, anno, cf, c, n, << >>)
    /\ f_name = << >>
    /\ fpc = "ask"

\* the property is read
ReadFilename ==
    /\ fpc = "ask"
    /\ f_name' = filename(f_rec)
    /\ fpc' = "done"
    /\ UNCHANGED f_rec
    /\ UNCHANGED exceptFile

\* =====================================================================
\*                 lib/matcher.py : load_anagrafica
\* =====================================================================
MaxRows == 2

\* a cell of the data frame: a missing value (an empty cell is read as
\* NaN) or a string
NaN == [nan |-> TRUE, text |-> << >>]
StrCell(text) == [nan |-> FALSE, text |-> text]

\* str(value)
StrOf(cell) == IF cell.nan THEN << "n", "a", "n" >> ELSE cell.text

\* str(row.get(column, "")): a column the data frame lacks gives ""
CellStr(row, col, cols) == IF col \in cols THEN StrOf(row[col]) ELSE << >>

NAN == << "N", "A", "N" >>

\* the four strings of a row after the "NAN" replacements
RowFields(row, cols) ==
    LET cognome == Strip(CellStr(row, "cognome", cols))
        nome    == Strip(CellStr(row, "nome", cols))
        cf      == Upper(Strip(CellStr(row, "codice_fiscale", cols)))
        email   == Strip(CellStr(row, "email", cols))
    IN  [cognome |-> IF cognome = NAN THEN << >> ELSE cognome,
         nome    |-> IF nome = NAN THEN << >> ELSE nome,
         cf      |-> IF cf = NAN THEN << >> ELSE cf,
         email   |-> IF email = NAN THEN << >> ELSE email]

\* is the row appended?
RowKept(f) == f.cognome # << >> \/ f.nome # << >> \/ f.cf # << >>

ColumnSets == { { "cognome", "nome", "codice_fiscale", "email" },
                { "cognome", "nome", "email" } }

\* the rows a data frame may hold
Rows ==
    [cognome : { NaN, StrCell(<< "A", "b" >>), StrCell(<< " " >>) },
     nome : { NaN, StrCell(<< "C", "D" >>) },
     codice_fiscale : { NaN, StrCell(<< "r", "1" >>) },
     email : { NaN, StrCell(<< "e", "1" >>) }]

LoadInit ==
    /\ l_df \in SeqsUpTo(Rows, MaxRows)
    /\ l_cols \in ColumnSets
    /\ l_pos = 1
    /\ l_records = << >>
    /\ l_kept = << >>
    /\ lpc = "rows"

\* one iteration of the loop over the rows
LoadRow ==
    /\ lpc = "rows"
    /\ l_pos <= Len(l_df)
    /\ LET f == RowFields(l_df[l_pos], l_cols)
       IN  IF RowKept(f)
           THEN /\ l_records' = Append(l_records,
                      AnagraficaRecord(Upper(f.cognome), Upper(f.nome),
                                       f.cf, f.email))
                /\ l_kept' = Append(l_kept, l_pos)
           ELSE UNCHANGED << l_records, l_kept >>
    /\ l_pos' = l_pos + 1
    /\ UNCHANGED << l_df, l_cols, lpc >>
    /\ UNCHANGED exceptLoad

ReturnLoaded ==
    /\ lpc = "rows"
    /\ l_pos > Len(l_df)
    /\ lpc' = "done"
    /\ UNCHANGED << l_df, l_cols, l_pos, l_records, l_kept >>
    /\ UNCHANGED exceptLoad

LoadNext == LoadRow \/ ReturnLoaded

\* =====================================================================
\*      repeated calls of match_cu_with_anagrafica by one caller
\* =====================================================================
MaxCalls == 3
MaxEdits == 1

\* the record lists and rosters of the caller
CallRecords ==
    { MkRecords(<< << CF_r1, << "A", "B" >>, << "C", "D" >> >>,
                   << << >>, << "A", "B" >>, << "C", "E" >> >> >>),
      MkRecords(<< << << >>, << "A", "B" >>, << "C", "E" >> >>,
                   << << >>, << "A", "B" >>, << "C" >> >> >>),
      MkRecords(<< << << >>, << >>, << >> >> >>) }

CallRosters ==
    { << AnagraficaRecord(<< "A", "B" >>, << "C", "D" >>, CF_R1, "e1"),
         AnagraficaRecord(<< "\\A", "B" >>, << "C", "D" >>, << >>, "e2") >>,
      << AnagraficaRecord(<< "A", "B" >>, << "C", "D" >>, CF_R1, "e1") >> }

CallThresholds == { DefaultThreshold, 89 }

EditedEmails == { "", "e9" }

CallInit ==
    /\ cu_records \in CallRecords
    /\ anagrafica \in CallRosters
    /\ fuzzy_threshold \in CallThresholds
    /\ results = << >>
    /\ matched_anagrafica_indices = {}
    /\ cf_index = << >>
    /\ cu_pos = 1
    /\ ana_pos = 1
    /\ fuzzy_consulted = {}
    /\ mpc = "index"
    /\ CallerIdle

\* the caller takes the list returned (app.py: match_results = results)
Receive ==
    /\ mpc = "done"
    /\ returned' = Append(returned, [threshold |-> fuzzy_threshold,
                                     results |-> results])
    /\ held' = results
    /\ mpc' = "held"
    /\ UNCHANGED << cu_records, anagrafica, fuzzy_threshold, results,
                    matched_anagrafica_indices, cf_index, cu_pos, ana_pos,
                    fuzzy_consulted, edits >>
    /\ UNCHANGED exceptCall

\* the roster after the email of a held result was edited: r.email is a
\* field of the MatchResult, the entry it references is not written
RosterAfterEdit(roster, r, email) == roster

\* the email field of a result for a record is edited (r.email = new_email)
EditEmail ==
    /\ mpc = "held"
    /\ Len(edits) < MaxEdits
    /\ \E i \in 1..Len(held), e \in EditedEmails :
          /\ held[i].status \in { MATCHED, CU_UNMATCHED }
          /\ e # held[i].email
          /\ held' = [held EXCEPT ![i].email = e]
          /\ anagrafica' = RosterAfterEdit(anagrafica, held[i], e)
    /\ edits' = Append(edits, Len(returned))
    /\ UNCHANGED << cu_records, fuzzy_threshold, results,
                    matched_anagrafica_indices, cf_index, cu_pos, ana_pos,
                    fuzzy_consulted, mpc, returned >>
    /\ UNCHANGED exceptCall

\* variant: the claimed set outlives the call
ClaimedKept(previous) == previous

\* the claimed set at the start of a call
ClaimedAtCall(previous) == {}

\* the function is called again on the same two lists
CallAgain ==
    /\ mpc = "held"
    /\ Len(returned) < MaxCalls
    /\ fuzzy_threshold' \in CallThresholds
    /\ results' = << >>
    /\ matched_anagrafica_indices' =
          ClaimedAtCall(matched_anagrafica_indices)
    /\ cf_index' = << >>
    /\ cu_pos' = 1
    /\ ana_pos' = 1
    /\ fuzzy_consulted' = {}
    /\ mpc' = "index"
    /\ UNCHANGED << cu_records, anagrafica, callerVars >>
    /\ UNCHANGED exceptCall

CallNext == BuildCfIndex \/ ExactMatch \/ FuzzyMatch \/ RecordsDone
            \/ RosterStep \/ ReturnResults \/ Receive \/ EditEmail
            \/ CallAgain

\* =====================================================================
\*                 lib/pdf_parser.py : parse_pdf as one function
\* =====================================================================
\* _find_cu_boundaries from page p on
RECURSIVE BoundariesFrom(_, _)
BoundariesFrom(d, p) ==
    IF p >= Len(d) THEN << >>
    ELSE PageBoundaries(p, d[p + 1]) \o BoundariesFrom(d, p + 1)

\* phase 1
RawSegmentsOf(d) ==
    LET bs == BoundariesFrom(d, 0)
    IN  [ i \in 1..Len(bs) |->
            LET start_page == bs[i].page
                end_page   == SegmentEnd(bs, i, Len(d))
                full_text  == PagesText(d, start_page, end_page)
            IN  [start_page |-> start_page, end_page |-> end_page,
                 anno |-> bs[i].anno,
                 cf |-> _extract_percipiente_cf(full_text),
                 text |-> full_text] ]

\* phases 1 and 2
MergedOf(d) == MergePass(RawSegmentsOf(d))

\* phase 3; names[i] is what _extract_nome_cognome gives for segment i
parse_pdf(d, names) ==
    LET m == MergedOf(d)
    IN  [ i \in 1..Len(m) |->
            CURecord(i, m[i].start_page, m[i].end_page, m[i].anno,
                     m[i].cf, names[i][1], names[i][2], m[i].text) ]

\* =====================================================================
\*                       app.py : the session
\* =====================================================================
\* the PDF files the user has at hand
AppDoc(name) ==
    CASE name = "A" -> << PgCover, PgPlain, PgSpaced >>
      [] name = "B" -> << PgData >>
      [] OTHER      -> << >>

AppDocNames == { "A", "B" }

\* the rosters load_anagrafica may return for the files the user has
AppRosters ==
    { << AnagraficaRecord(<< "A", "B" >>, << "C", "D" >>, CF_R1, "e1"),
         AnagraficaRecord(<< "X", "Y" >>, << >>, CF_S2, "e2") >>,
      << AnagraficaRecord(<< "A", "B" >>, << "C", "D" >>, << >>, "") >> }

\* if uploaded_pdf is not None: session_state.pdf_bytes = pdf_bytes
BytesAfterRun(uploaded, bytes) ==
    IF uploaded # "none" THEN uploaded ELSE bytes

\* the calls of export_single_cu of export_all_as_zip, made by every run
\* of the script in which there are records and pdf_bytes
ZipExports(bytes, recs, from) ==
    IF recs # << >> /\ bytes # "none"
    THEN { [bytes |-> bytes, from |-> from,
            start_page |-> recs[i].start_page,
            end_page |-> recs[i].end_page, via |-> "zip"] :
           i \in 1..Len(recs) }
    ELSE {}

\* the part of the script every run executes: tab 1 outside the button
ScriptRun ==
    /\ a_pdf_bytes' = BytesAfterRun(a_uploaded', a_pdf_bytes)
    /\ a_exports' =
          ZipExports(a_pdf_bytes', a_cu_records', a_parsed_from')

MaxSends == 2

\* the buttons pressed, after button e was pressed
Pressed(seq, e) ==
    LET others == { i \in 1..Len(seq) : seq[i] # e }
        Nth(k) == CHOOSE i \in others :
                     Cardinality({ j \in others : j < i }) = k - 1
    IN  [ k \in 1..Cardinality(others) |-> seq[Nth(k)] ] \o << e >>

\* the user puts a file into the PDF uploader
UploadPdf ==
    /\ \E name \in AppDocNames :
          /\ name # a_uploaded
          /\ a_uploaded' = name
    /\ a_event' = "upload"
    /\ UNCHANGED << a_cu_records, a_parsed_from, a_match_results,
                    a_confirmed, a_send_logs >>
    /\ ScriptRun
    /\ UNCHANGED << a_sends, a_recent >>
    /\ UNCHANGED exceptApp

\* the user removes the file from the PDF uploader
ClearUpload ==
    /\ a_uploaded # "none"
    /\ a_uploaded' = "none"
    /\ a_event' = "clear"
    /\ UNCHANGED << a_cu_records, a_parsed_from, a_match_results,
                    a_confirmed, a_send_logs >>
    /\ ScriptRun
    /\ UNCHANGED << a_sends, a_recent >>
    /\ UNCHANGED exceptApp

\* the button "Analizza PDF"
AnalyzePdf ==
    /\ a_uploaded # "none"
    /\ \E names \in [1..Len(MergedOf(AppDoc(a_uploaded))) -> ExtractedNames] :
          a_cu_records' = parse_pdf(AppDoc(a_uploaded), names)
    /\ a_parsed_from' = a_uploaded
    /\ a_match_results' = << >>
    /\ a_confirmed' = FALSE
    /\ a_send_logs' = << >>
    /\ a_event' = "analyze"
    /\ UNCHANGED a_uploaded
    /\ ScriptRun
    /\ a_recent' = Pressed(a_recent, "analyze")
    /\ UNCHANGED a_sends
    /\ UNCHANGED exceptApp

\* the results whose email field is shown for editing
Editable(r) == r.status \in { MATCHED, CU_UNMATCHED }

\* the position of result i among the results of its status: the number
\* in the key of its email field
FieldNo(res, i) ==
    Cardinality({ j \in 1..i : res[j].status = res[i].status })

\* the email fields of tab 2 in the run that has just put new results into
\* match_results, after it showed the results before: a field returns what
\* it typed in the last run when its key and parameters are the same (the
\* fields of the records without entry, whose value is always ""), and for
\* a key whose value parameter changed either that or the new value,
\* depending on whether the library tells fields apart by key alone
EmailFields(results_now, before, keyed) ==
    [ i \in 1..Len(results_now) |->
        LET r == results_now[i]
            same == { j \in 1..Len(before) :
                         /\ before[j].status = r.status
                         /\ FieldNo(before, j) = FieldNo(results_now, i) }
            typed == before[(CHOOSE j \in same : TRUE)].email
        IN  IF ~Editable(r) THEN r
            ELSE IF same = {} THEN r
            ELSE IF r.status = CU_UNMATCHED THEN [r EXCEPT !.email = typed]
            ELSE IF keyed THEN [r EXCEPT !.email = typed]
            ELSE r ]

\* the button "Esegui Matching", with a roster file in the uploader
RunMatching ==
    /\ a_cu_records # << >>
    /\ \E roster \in AppRosters, keyed \in BOOLEAN :
          a_match_results' =
             EmailFields(match_cu_with_anagrafica(a_cu_records, roster,
                                                  DefaultThreshold),
                         a_match_results, keyed)
    /\ a_confirmed' = FALSE
    /\ a_event' = "match"
    /\ UNCHANGED << a_uploaded, a_cu_records, a_parsed_from, a_send_logs >>
    /\ ScriptRun
    /\ a_recent' = Pressed(a_recent, "match")
    /\ UNCHANGED a_sends
    /\ UNCHANGED exceptApp

\* the user types into the email field of a result
EditResultEmail ==
    /\ a_cu_records # << >>
    /\ \E i \in 1..Len(a_match_results), e \in EditedEmails :
          /\ Editable(a_match_results[i])
          /\ e # a_match_results[i].email
          /\ a_match_results' = [a_match_results EXCEPT ![i].email = e]
    /\ a_event' = "edit"
    /\ UNCHANGED << a_uploaded, a_cu_records, a_parsed_from, a_confirmed,
                    a_send_logs >>
    /\ ScriptRun
    /\ UNCHANGED << a_sends, a_recent >>
    /\ UNCHANGED exceptApp

\* the button "Conferma Matching"
ConfirmMatching ==
    /\ a_cu_records # << >>
    /\ a_match_results # << >>
    /\ ~a_confirmed
    /\ a_confirmed' = TRUE
    /\ a_event' = "confirm"
    /\ UNCHANGED << a_uploaded, a_cu_records, a_parsed_from,
                    a_match_results, a_send_logs >>
    /\ ScriptRun
    /\ a_recent' = Pressed(a_recent, "confirm")
    /\ UNCHANGED a_sends
    /\ UNCHANGED exceptApp

\* variant: every result with an email is sendable
SendableWithEmail(r) == r.email # ""

\* the filter of tab 3
Sendable(r) ==
    /\ r.email # ""
    /\ r.status # ANAGRAFICA_UNMATCHED
    /\ r.cu.start_page >= 0

\* the positions of the sendable results from position i on
RECURSIVE SendableFrom(_, _)
SendableFrom(res, i) ==
    IF i > Len(res) THEN << >>
    ELSE IF Sendable(res[i]) THEN << i >> \o SendableFrom(res, i + 1)
    ELSE SendableFrom(res, i + 1)

SendStatuses == { "success", "error" }

\* st.session_state.send_logs = []
LogsAtStart(previous) == << >>

\* variant: a failed send ends the loop without a log
SendLoopUntilError(res, sendable, outcome, k) ==
    LET failed == { j \in 1..Len(sendable) : outcome[j] = "error" }
        n == IF failed = {} THEN Len(sendable)
             ELSE (CHOOSE j \in failed : \A i \in failed : j <= i) - 1
    IN  [ j \in 1..n |->
            [to |-> res[sendable[j]].email,
             filename |-> filename(res[sendable[j]].cu),
             result |-> sendable[j],
             status |-> outcome[j]] ]

\* the loop over sendable from its element k on: one call of send_cu_email
\* and one log for each, whatever the status of the one before
RECURSIVE SendLoop(_, _, _, _)
SendLoop(res, sendable, outcome, k) ==
    IF k > Len(sendable) THEN << >>
    ELSE << [to |-> res[sendable[k]].email,
             filename |-> filename(res[sendable[k]].cu),
             result |-> sendable[k],
             status |-> outcome[k]] >>
         \o SendLoop(res, sendable, outcome, k + 1)

\* the button "Invia tutte", with the SMTP settings filled in; send_cu_email
\* returns a log with either status and never raises
SendAll ==
    /\ a_confirmed
    /\ a_sends < MaxSends
    /\ a_pdf_bytes' = BytesAfterRun(a_uploaded, a_pdf_bytes)
    /\ LET sendable == SendableFrom(a_match_results, 1)
       IN  /\ sendable # << >>
           /\ \E outcome \in [1..Len(sendable) -> SendStatuses] :
                 a_send_logs' = LogsAtStart(a_send_logs)
                    \o SendLoop(a_match_results, sendable, outcome, 1)
           /\ a_exports' =
                 ZipExports(a_pdf_bytes', a_cu_records, a_parsed_from)
                 \cup { [bytes |-> a_pdf_bytes', from |-> a_parsed_from,
                         start_page |->
                            a_match_results[sendable[k]].cu.start_page,
                         end_page |->
                            a_match_results[sendable[k]].cu.end_page,
                         via |-> "mail"] : k \in 1..Len(sendable) }
    /\ a_event' = "send"
    /\ UNCHANGED << a_uploaded, a_cu_records, a_parsed_from,
                    a_match_results, a_confirmed >>
    /\ a_sends' = a_sends + 1
    /\ UNCHANGED a_recent
    /\ UNCHANGED exceptApp

AppNext == UploadPdf \/ ClearUpload \/ AnalyzePdf \/ RunMatching
           \/ EditResultEmail \/ ConfirmMatching \/ SendAll

Init == MatchInit /\ ParseIdle /\ FileIdle /\ LoadIdle /\ CallerIdle
        /\ AppIdle
Next == MatchNext
Spec == Init /\ [][Next]_vars

\* a run of parse_pdf on an arbitrary document
ParseSpecInit == ParseInit /\ MatchIdle /\ FileIdle /\ LoadIdle /\ CallerIdle
                 /\ AppIdle
SpecParse == ParseSpecInit /\ [][ParseNext]_vars

\* one reading of CURecord.filename on an arbitrary record
FileSpecInit == FileInit /\ MatchIdle /\ ParseIdle /\ LoadIdle /\ CallerIdle
                /\ AppIdle
SpecFile == FileSpecInit /\ [][ReadFilename]_vars

\* one call of load_anagrafica on an arbitrary table
LoadSpecInit == LoadInit /\ MatchIdle /\ ParseIdle /\ FileIdle /\ CallerIdle
                /\ AppIdle
SpecLoad == LoadSpecInit /\ [][LoadNext]_vars

\* a caller that calls the matching engine up to MaxCalls times
CallSpecInit == CallInit /\ ParseIdle /\ FileIdle /\ LoadIdle
                /\ AppIdle
SpecCalls == CallSpecInit /\ [][CallNext]_vars

\* a session of the user interface
AppSpecInit == AppIdle /\ MatchIdle /\ ParseIdle /\ FileIdle /\ LoadIdle
               /\ CallerIdle
SpecApp == AppSpecInit /\ [][AppNext]_vars

\* =====================================================================
\*                     properties of the matching engine
\* =====================================================================
RecordResults == 1..(IF Len(results) < Len(cu_records) THEN Len(results)
                     ELSE Len(cu_records))

CuName(cu) == _normalize(JoinSpace(cu.cognome, cu.nome))

ScoreOf(cu, a) == token_sort_ratio(CuName(cu), full_name_normalized(a))

\* the roster positions whose tax code equals the record's, ignoring case
SameCf(cu) ==
    { k \in 1..Len(anagrafica) :
        /\ cu.codice_fiscale # << >>
        /\ Upper(anagrafica[k].codice_fiscale) = Upper(cu.codice_fiscale) }

\* the record the loop is about to process
Processing == mpc = "records" /\ cu_pos <= Len(cu_records)

\* C1: no two MATCHED results reference the same roster entry, and at the
\* end of the run every roster entry is referenced by exactly one result.
C1_NoDoubleClaim ==
    /\ \A i, j \in 1..Len(results) :
          ( /\ i # j
            /\ results[i].status = MATCHED
            /\ results[j].status = MATCHED )
          => results[i].anagrafica # results[j].anagrafica
    /\ mpc = "done" =>
          \A k \in 1..Len(anagrafica) :
             Cardinality({ i \in 1..Len(results) :
                             results[i].anagrafica = k }) = 1

\* C2: at the end there is one result per record, in record order, with
\* status MATCHED or CU_UNMATCHED, followed by exactly one
\* ANAGRAFICA_UNMATCHED result per roster position never claimed.
C2_Coverage ==
    mpc = "done" =>
      LET nrec      == Len(cu_records)
          unclaimed == { k \in 1..Len(anagrafica) :
                           k \notin matched_anagrafica_indices }
      IN  /\ Len(results) = nrec + Cardinality(unclaimed)
          /\ \A i \in 1..nrec :
                /\ results[i].cu = cu_records[i]
                /\ results[i].status \in { MATCHED, CU_UNMATCHED }
          /\ \A i \in (nrec + 1)..Len(results) :
                /\ results[i].status = ANAGRAFICA_UNMATCHED
                /\ results[i].anagrafica \in unclaimed
          /\ \A k \in unclaimed :
                Cardinality({ i \in 1..Len(results) :
                    /\ results[i].status = ANAGRAFICA_UNMATCHED
                    /\ results[i].anagrafica = k }) = 1
          /\ matched_anagrafica_indices =
                { results[i].anagrafica : i \in
                    { j \in 1..nrec : results[j].status = MATCHED } }

C2_Witness ==
    /\ mpc = "done"
    /\ \E i, j, k \in 1..Len(results) :
          /\ results[i].status = MATCHED
          /\ results[j].status = CU_UNMATCHED
          /\ results[k].status = ANAGRAFICA_UNMATCHED

\* C3: a record whose non-empty tax code equals, ignoring case, that of a
\* roster entry not yet claimed gets a MATCHED result with score 100 and
\* method "Codice Fiscale", and does not go through the fuzzy branch.
C3_ExactPriority ==
    [][ ( /\ Processing
          /\ \E k \in SameCf(cu_records[cu_pos]) :
                k \notin matched_anagrafica_indices )
        => /\ Len(results') = Len(results) + 1
           /\ results'[Len(results')].cu = cu_records[cu_pos]
           /\ results'[Len(results')].status = MATCHED
           /\ results'[Len(results')].match_score = 100
           /\ results'[Len(results')].match_method = "Codice Fiscale"
           /\ cu_pos \notin fuzzy_consulted' ]_vars

\* an exact match of a lower-case tax code to an entry whose name has
\* nothing in common with the record's, while a namesake is in the roster
C3_Witness ==
    \E i \in RecordResults :
       /\ results[i].match_method = "Codice Fiscale"
       /\ results[i].cu.codice_fiscale # Upper(results[i].cu.codice_fiscale)
       /\ ScoreOf(results[i].cu, anagrafica[results[i].anagrafica]) < 100
       /\ \E k \in 1..Len(anagrafica) :
             ScoreOf(results[i].cu, anagrafica[k]) = 100

\* C4 as stated: every MATCHED result has match_score >= fuzzy_threshold
\* and a non-empty method, whatever the threshold.
C4_Original ==
    \A i \in 1..Len(results) :
       results[i].status = MATCHED
       => /\ results[i].match_score >= fuzzy_threshold
          /\ results[i].match_method # ""

\* C4 amended: every MATCHED result has a non-empty method; a fuzzy match
\* has match_score >= fuzzy_threshold, an exact match has score 100, so
\* match_score >= fuzzy_threshold whenever fuzzy_threshold <= 100.
C4_Amended ==
    \A i \in 1..Len(results) :
       results[i].status = MATCHED
       => /\ results[i].match_method \in { "Codice Fiscale", "Nome (fuzzy)" }
          /\ results[i].match_method = "Nome (fuzzy)"
                => results[i].match_score >= fuzzy_threshold
          /\ results[i].match_method = "Codice Fiscale"
                => results[i].match_score = 100
          /\ fuzzy_threshold <= 100
                => results[i].match_score >= fuzzy_threshold

\* a fuzzy match right at a non-default threshold, next to an exact one
C4_Witness ==
    /\ fuzzy_threshold # DefaultThreshold
    /\ \E i, j \in 1..Len(results) :
          /\ results[i].match_method = "Nome (fuzzy)"
          /\ results[i].match_score < 100
          /\ results[j].match_method = "Codice Fiscale"

\* the best similarity of the record over the unclaimed entries
Unclaimed == { k \in 1..Len(anagrafica) : k \notin matched_anagrafica_indices }

BestOver(cu, ks) ==
    CHOOSE b \in { ScoreOf(cu, anagrafica[k]) : k \in ks } :
       \A k \in ks : ScoreOf(cu, anagrafica[k]) <= b

NoExact(cu) == SameCf(cu) = {}

FuzzyCase == Processing /\ NoExact(cu_records[cu_pos]) /\ Unclaimed # {}

\* what the threshold boundary demands of the step that processes a record
\* whose best score is exactly the threshold / one below it
AtThresholdMatches ==
    /\ results'[Len(results')].status = MATCHED
    /\ results'[Len(results')].anagrafica \in Unclaimed
    /\ ScoreOf(cu_records[cu_pos],
               anagrafica[results'[Len(results')].anagrafica])
          = fuzzy_threshold

BelowThresholdUnmatched ==
    /\ results'[Len(results')].status = CU_UNMATCHED
    /\ matched_anagrafica_indices' = matched_anagrafica_indices

\* C5 as stated: best score = threshold matches, threshold - 1 does not.
C5_Original ==
    [][ FuzzyCase =>
          LET b == BestOver(cu_records[cu_pos], Unclaimed)
          IN  /\ b = fuzzy_threshold => AtThresholdMatches
              /\ b = fuzzy_threshold - 1 => BelowThresholdUnmatched ]_vars

\* C5 amended: a best score equal to the threshold and greater than 0
\* matches; a best score of threshold - 1 does not, and neither does a
\* best score of 0, whatever the threshold.
C5_Amended ==
    [][ FuzzyCase =>
          LET b == BestOver(cu_records[cu_pos], Unclaimed)
          IN  /\ (b = fuzzy_threshold /\ b > 0) => AtThresholdMatches
              /\ b = fuzzy_threshold - 1 => BelowThresholdUnmatched
              /\ b = 0 => BelowThresholdUnmatched ]_vars

\* both sides of the boundary have happened in one run: a record matched
\* with score = threshold, and another left unmatched although an entry
\* that was unclaimed then (and is still unclaimed) scores threshold - 1
C5_Witness ==
    \E i, j \in RecordResults :
       /\ results[i].match_method = "Nome (fuzzy)"
       /\ results[i].match_score = fuzzy_threshold
       /\ results[j].status = CU_UNMATCHED
       /\ j \in fuzzy_consulted
       /\ fuzzy_threshold > 1
       /\ \E k \in Unclaimed :
             ScoreOf(results[j].cu, anagrafica[k]) = fuzzy_threshold - 1


\* =====================================================================
\*                  properties of the document segmenter
\* =====================================================================
LastPage == Len(doc) - 1

BoundaryPages == { boundaries[i].page : i \in 1..Len(boundaries) }

\* C6: the page ranges of the returned records are non-empty, consecutive
\* (hence pairwise disjoint), start at the first boundary page and end at
\* the last page of the document, and each starts at a boundary page.
C6_RangesPartition ==
    (ppc = "done" /\ records # << >>) =>
       /\ records[1].start_page = boundaries[1].page
       /\ records[Len(records)].end_page = LastPage
       /\ \A k \in 1..Len(records) :
             /\ records[k].start_page <= records[k].end_page
             /\ records[k].start_page \in BoundaryPages
             /\ records[k].index = k
       /\ \A k \in 1..(Len(records) - 1) :
             records[k + 1].start_page = records[k].end_page + 1
       /\ \A k, l \in 1..Len(records) :
             k # l => (records[k].end_page < records[l].start_page
                       \/ records[l].end_page < records[k].start_page)
       /\ UNION { records[k].start_page..records[k].end_page :
                    k \in 1..Len(records) }
             = boundaries[1].page..LastPage

\* several records, one of them merged from two segments, and pages before
\* the first boundary that belong to no record
C6_Witness ==
    /\ ppc = "done"
    /\ Len(records) >= 2
    /\ Len(records) < Len(boundaries)
    /\ boundaries[1].page > 0
    /\ \E k \in 1..Len(records) : records[k].start_page < records[k].end_page

\* the raw segments that open a record: the first one, and every one whose
\* tax code is empty or differs from that of the segment right before it
RunStarts ==
    { i \in 1..Len(raw_segments) :
        \/ i = 1
        \/ raw_segments[i].cf = << >>
        \/ raw_segments[i].cf # raw_segments[i - 1].cf }

\* the last raw segment of the run that starts at i
RunEnd(i) ==
    LET later == { j \in RunStarts : j > i }
    IN  IF later = {} THEN Len(raw_segments) ELSE MinOf(later) - 1

RECURSIVE ConcatTexts(_, _)
ConcatTexts(from, to) ==
    IF from > to THEN << >>
    ELSE raw_segments[from].text \o ConcatTexts(from + 1, to)

MergeOver == ppc \in { "extract", "done" }

\* C7: after the merge pass there is one merged segment per maximal run of
\* consecutive raw segments with the same non-empty tax code (a segment
\* with empty tax code is a run of its own), covering the run's pages and
\* texts; the 9-page example gives records 0-2 and 3-8.
C7_MergeAdjacentOnly ==
    /\ MergeOver =>
          /\ Len(merged) = Cardinality(RunStarts)
          /\ \A k \in 1..Len(merged) :
                \E i \in RunStarts :
                   /\ Cardinality({ j \in RunStarts : j <= i }) = k
                   /\ merged[k].start_page = raw_segments[i].start_page
                   /\ merged[k].end_page = raw_segments[RunEnd(i)].end_page
                   /\ merged[k].cf = raw_segments[i].cf
                   /\ merged[k].anno = raw_segments[i].anno
                   /\ merged[k].text = ConcatTexts(i, RunEnd(i))
    /\ (ppc = "done" /\ doc = ExampleDoc) =>
          /\ BoundaryPages = { 0, 3, 7 }
          /\ [i \in 1..3 |-> raw_segments[i].cf] = << << >>, CF_R1, CF_R1 >>
          /\ Len(records) = 2
          /\ << records[1].start_page, records[1].end_page >> = << 0, 2 >>
          /\ << records[2].start_page, records[2].end_page >> = << 3, 8 >>
          /\ records[1].codice_fiscale = << >>
          /\ records[2].codice_fiscale = CF_R1

\* a run of same-code segments merged, a segment without tax code kept
\* apart from the one before it, and two records with the same tax code
\* kept apart by a third
C7_Witness ==
    /\ ppc = "done"
    /\ \E i \in 2..Len(raw_segments) : i \notin RunStarts
    /\ \E i \in 2..Len(raw_segments) : raw_segments[i].cf = << >>
    /\ \E k, l \in 1..Len(merged) :
          /\ k + 1 < l
          /\ merged[k].cf # << >>
          /\ merged[k].cf = merged[l].cf

\* C8: the merge pass applied to its own output returns that output.
C8_MergeIdempotent ==
    MergeOver => MergePass(merged) = merged

\* the output of a pass that did merge, holding neighbours without tax code
C8_Witness ==
    /\ MergeOver
    /\ Len(merged) < Len(raw_segments)
    /\ \E k \in 2..Len(merged) :
          merged[k].cf = << >> /\ merged[k - 1].cf = << >>

\* does some strategy of _find_cu_boundaries match the text?
SomeStrategyMatches(text) ==
    \/ \E i \in 1..Len(text) : HeaderAt(text, i, 0) # ""
    \/ \E i \in 1..Len(text) : HeaderAt(text, i, 1) # ""
    \/ LineScan(text) # ""

\* C9: the boundary list has strictly increasing page indices; every page
\* scanned so far contributes one boundary if some strategy matches its
\* text and none otherwise.
C9_BoundariesIncreasing ==
    /\ \A i, j \in 1..Len(boundaries) :
          i < j => boundaries[i].page < boundaries[j].page
    /\ \A p \in 0..LastPage :
          Cardinality({ i \in 1..Len(boundaries) : boundaries[i].page = p })
             = IF p < page_idx /\ SomeStrategyMatches(doc[p + 1])
               THEN 1 ELSE 0
    /\ seen_pages = BoundaryPages

\* the scan is over and found boundaries by the first pattern and by the
\* second one, and pages without boundary
C9_Witness ==
    /\ ppc = "raw"
    /\ \E i, j \in 1..Len(boundaries) :
          /\ SearchPattern0(doc[boundaries[i].page + 1]) # ""
          /\ SearchPattern0(doc[boundaries[j].page + 1]) = ""
    /\ Len(boundaries) < Len(doc)

\* C10 as stated: without boundaries the result is the empty list, and a
\* last boundary on the last page makes the final record a one-page record.
C10_Original ==
    ppc = "done" =>
       /\ boundaries = << >> => (records = << >> /\ raw_segments = << >>)
       /\ (boundaries # << >>
           /\ boundaries[Len(boundaries)].page = LastPage)
          => /\ records[Len(records)].start_page = LastPage
             /\ records[Len(records)].end_page = LastPage

\* C10 amended: without boundaries the result is the empty list; a last
\* boundary on the last page makes a one-page last raw segment, and the
\* final record is that one page unless the segment was merged into the
\* preceding one (same non-empty tax code), in which case the final record
\* starts earlier and ends on the last page.
C10_Amended ==
    ppc = "done" =>
       /\ boundaries = << >> => (records = << >> /\ raw_segments = << >>)
       /\ (boundaries # << >>
           /\ boundaries[Len(boundaries)].page = LastPage)
          => LET n    == Len(raw_segments)
                 last == records[Len(records)]
             IN  /\ raw_segments[n].start_page = LastPage
                 /\ raw_segments[n].end_page = LastPage
                 /\ last.end_page = LastPage
                 /\ (last.start_page = LastPage) <=> (n \in RunStarts)

\* a document of several pages whose last page is a boundary that stays a
\* record of its own
C10_Witness ==
    /\ ppc = "done"
    /\ Len(records) >= 2
    /\ boundaries[Len(boundaries)].page = LastPage
    /\ records[Len(records)].start_page = LastPage


\* =====================================================================
\*             properties of the matching engine, continued
\* =====================================================================
\* the unclaimed roster positions, in load order
RECURSIVE PositionsIn(_, _)
PositionsIn(ks, from) ==
    IF from > Len(anagrafica) THEN << >>
    ELSE IF from \in ks THEN << from >> \o PositionsIn(ks, from + 1)
    ELSE PositionsIn(ks, from + 1)

\* C11: at the end, after the per-record results, there is one
\* ANAGRAFICA_UNMATCHED result per roster position outside the claimed set,
\* in roster order, referencing the entry, with the entry's email and a
\* placeholder record (index, start_page, end_page = -1) that carries the
\* entry's surname, given name and tax code.
C11_RosterUnmatched ==
    mpc = "done" =>
      LET nrec == Len(cu_records)
          left == PositionsIn(Unclaimed, 1)
      IN  /\ Len(results) = nrec + Len(left)
          /\ \A j \in 1..Len(left) :
                LET r == results[nrec + j]
                    a == anagrafica[left[j]]
                IN  /\ r.status = ANAGRAFICA_UNMATCHED
                    /\ r.anagrafica = left[j]
                    /\ r.email = a.email
                    /\ r.cu.index = -1
                    /\ r.cu.start_page = -1
                    /\ r.cu.end_page = -1
                    /\ r.cu.cognome = a.cognome
                    /\ r.cu.nome = a.nome
                    /\ r.cu.codice_fiscale = a.codice_fiscale
          /\ \A i \in 1..nrec : results[i].status # ANAGRAFICA_UNMATCHED

\* a run that claimed the first entry and left the second, which has an
\* email, and a run is over with a record result in front
C11_Witness ==
    /\ mpc = "done"
    /\ Len(cu_records) >= 1
    /\ matched_anagrafica_indices = { 1 }
    /\ Len(anagrafica) = 2
    /\ results[Len(results)].status = ANAGRAFICA_UNMATCHED
    /\ results[Len(results)].email # ""

\* C12: a record without exact match for which no unclaimed entry scores
\* at least the threshold gets a CU_UNMATCHED result without roster
\* reference, with empty email, score 0 and empty method, and the claimed
\* set stays as it was.
C12_RecordUnmatched ==
    [][ ( /\ Processing
          /\ NoExact(cu_records[cu_pos])
          /\ \A k \in Unclaimed :
                ScoreOf(cu_records[cu_pos], anagrafica[k]) < fuzzy_threshold )
        => /\ results' = Append(results,
                 MatchResult(cu_records[cu_pos], 0, CU_UNMATCHED, "", 0, ""))
           /\ matched_anagrafica_indices' = matched_anagrafica_indices
           /\ cu_pos' = cu_pos + 1 ]_vars

\* one run left unmatched a record with no tax code and no names and a
\* record whose best entry scores below the threshold but above 0
C12_Witness ==
    \E i, j \in RecordResults :
       /\ results[i].status = CU_UNMATCHED
       /\ results[i].cu.codice_fiscale = << >>
       /\ results[i].cu.cognome = << >>
       /\ results[i].cu.nome = << >>
       /\ results[j].status = CU_UNMATCHED
       /\ \E k \in Unclaimed :
             /\ ScoreOf(results[j].cu, anagrafica[k]) > 0
             /\ ScoreOf(results[j].cu, anagrafica[k]) < fuzzy_threshold


\* C18: the entry a record is fuzzy-matched to is the first unclaimed
\* entry, in roster order, that attains the maximum score over the
\* unclaimed entries: every earlier unclaimed entry scores strictly less,
\* no unclaimed entry scores more, and that entry is the one claimed.
C18_FirstBestWins ==
    [][ ( /\ FuzzyCase
          /\ Len(results') = Len(results) + 1
          /\ results'[Len(results')].status = MATCHED )
        => LET cu == cu_records[cu_pos]
               k  == results'[Len(results')].anagrafica
           IN  /\ k \in Unclaimed
               /\ ScoreOf(cu, anagrafica[k]) = BestOver(cu, Unclaimed)
               /\ results'[Len(results')].match_score
                     = BestOver(cu, Unclaimed)
               /\ \A j \in Unclaimed :
                     j < k => ScoreOf(cu, anagrafica[j])
                                 < ScoreOf(cu, anagrafica[k])
               /\ matched_anagrafica_indices'
                     = matched_anagrafica_indices \cup { k } ]_vars

\* a record was fuzzy-matched to the first entry although the second,
\* different and still unclaimed, scores the same
C18_Witness ==
    \E i \in RecordResults :
       /\ results[i].status = MATCHED
       /\ results[i].match_method = "Nome (fuzzy)"
       /\ results[i].anagrafica = 1
       /\ Len(anagrafica) = 2
       /\ anagrafica[2] # anagrafica[1]
       /\ 2 \notin matched_anagrafica_indices
       /\ ScoreOf(results[i].cu, anagrafica[2]) = results[i].match_score


\* the arrangements of the positions 1..n
Perms(n) ==
    { p \in [1..n -> 1..n] : \A i, j \in 1..n : i # j => p[i] # p[j] }

Permuted(recs, p) == [ i \in 1..Len(recs) |-> recs[p[i]] ]

\* C19: whatever the order of the records, a record matched by tax code in
\* this run gets the same result (same entry, by tax code, score 100) in
\* the run over any rearrangement of the records; so a record whose result
\* differs between two orders is one that took the name comparison.
C19_ExactOrderFree ==
    mpc = "done" =>
      /\ \A k \in 1..Len(cu_records) :
            results[k].match_method # "Codice Fiscale"
               => k \in fuzzy_consulted
      /\ \A p \in Perms(Len(cu_records)) :
            \A i \in 1..Len(cu_records) :
               results[p[i]].match_method = "Codice Fiscale"
                  => match_cu_with_anagrafica(Permuted(cu_records, p),
                        anagrafica, fuzzy_threshold)[i] = results[p[i]]

\* a run in which the first record is matched by tax code and the second
\* record's result depends on the order of the two
C19_Witness ==
    /\ mpc = "done"
    /\ Len(cu_records) = 2
    /\ results[1].match_method = "Codice Fiscale"
    /\ LET other == match_cu_with_anagrafica(
                       << cu_records[2], cu_records[1] >>,
                       anagrafica, fuzzy_threshold)
       IN  /\ other[1] # results[2]
           /\ other[2] = results[1]


\* =====================================================================
\*               properties of the tax code extraction
\* =====================================================================
\* the section header patterns that match the text
MatchingHeaders(t) == { n \in 0..4 : SectionEnd(t, n) # 0 }

\* the tax code matches after the match of header pattern n
TokensAfter(t, n) == CfPositions(t, SectionEnd(t, n) + 1)

\* cf is what the positional rule gives: the only tax code of the text, the
\* second when there are two or more, nothing when there is none
Positional(t, cf) ==
    LET all == CfPositions(t, 1)
    IN  /\ all = {} => cf = << >>
        /\ Cardinality(all) = 1 => \A i \in all : cf = CfOfToken(t[i])
        /\ Cardinality(all) >= 2 =>
              \E i \in all :
                 /\ Cardinality({ j \in all : j < i }) = 1
                 /\ cf = CfOfToken(t[i])

\* cf is the first tax code after the match of header pattern n
FirstAfter(t, n, cf) ==
    \E i \in TokensAfter(t, n) :
       /\ \A j \in TokensAfter(t, n) : i <= j
       /\ cf = CfOfToken(t[i])

\* C17 as stated: when a header pattern matches, the tax code of a segment
\* is the first one after the highest-priority matching header (none if
\* none follows it); the positional rule applies only when no header
\* pattern matches.
C17_Original ==
    \A s \in 1..Len(raw_segments) :
       LET t  == raw_segments[s].text
           cf == raw_segments[s].cf
       IN  IF MatchingHeaders(t) # {}
           THEN LET top == MinOf(MatchingHeaders(t))
                IN  IF TokensAfter(t, top) # {} THEN FirstAfter(t, top, cf)
                    ELSE cf = << >>
           ELSE Positional(t, cf)

\* C17, amended: the tax code of a segment is the first one after the
\* highest-priority matching header among those followed by a tax code;
\* when no header pattern matches, or none of the matching headers is
\* followed by a tax code, the positional rule applies.
C17_Amended ==
    \A s \in 1..Len(raw_segments) :
       LET t      == raw_segments[s].text
           cf     == raw_segments[s].cf
           useful == { n \in MatchingHeaders(t) : TokensAfter(t, n) # {} }
       IN  IF useful # {} THEN FirstAfter(t, MinOf(useful), cf)
           ELSE Positional(t, cf)

\* one segment whose best header has no tax code after it while a later
\* pattern has one that is not the positional choice, and one segment whose
\* only header has no tax code after it and got the code in front of it
C17_Witness ==
    /\ \E s \in 1..Len(raw_segments) :
          LET t == raw_segments[s].text
          IN  /\ MatchingHeaders(t) # {}
              /\ TokensAfter(t, MinOf(MatchingHeaders(t))) = {}
              /\ \E n \in MatchingHeaders(t) : TokensAfter(t, n) # {}
              /\ ~Positional(t, raw_segments[s].cf)
    /\ \E s \in 1..Len(raw_segments) :
          LET t == raw_segments[s].text
          IN  /\ MatchingHeaders(t) # {}
              /\ \A n \in MatchingHeaders(t) : TokensAfter(t, n) = {}
              /\ raw_segments[s].cf # << >>


\* =====================================================================
\*                  properties of CURecord.filename
\* =====================================================================
\* the parts of a string between the occurrences of sep
RECURSIVE PartsOf(_, _, _)
PartsOf(s, sep, cur) ==
    IF s = << >> THEN << cur >>
    ELSE IF Head(s) = sep THEN << cur >> \o PartsOf(Tail(s), sep, << >>)
    ELSE PartsOf(Tail(s), sep, Append(cur, Head(s)))

\* part is the file name form of a name that is present: the characters
\* of the name other than spaces, in order, each upper case when it starts
\* the part or follows a character without case, lower case otherwise
IsTitled(part, name) ==
    /\ \A i \in 1..Len(part) : part[i] # " "
    /\ Upper(part) = Upper(RemoveSpaces(name))
    /\ \A i \in 1..Len(part) :
          IF i > 1 /\ IsCased(part[i - 1])
          THEN part[i] = LowerChar(part[i])
          ELSE part[i] = UpperChar(part[i])

\* C16: the file name has the four parts CU<year>, surname, given name and
\* tax code + ".pdf", joined by "_"; an empty name gives the part
\* "Sconosciuto", an empty tax code "CFMANCANTE"; a present tax code appears
\* in upper case and a present name without spaces and title-cased; the
\* name is the same for any record with these four fields.
C16_FilenameForm ==
    fpc = "done" =>
      LET parts == PartsOf(f_name, "_", << >>)
      IN  /\ Len(parts) = 4
          /\ parts[1] = << "C", "U" >> \o AnnoChars(f_rec.anno)
          /\ IF f_rec.cognome = << >> THEN parts[2] = Sconosciuto
             ELSE IsTitled(parts[2], f_rec.cognome)
          /\ IF f_rec.nome = << >> THEN parts[3] = Sconosciuto
             ELSE IsTitled(parts[3], f_rec.nome)
          /\ Len(parts[4]) >= 4
          /\ SubSeq(parts[4], Len(parts[4]) - 3, Len(parts[4]))
                = << ".", "p", "d", "f" >>
          /\ LET cf == SubSeq(parts[4], 1, Len(parts[4]) - 4)
             IN  IF f_rec.codice_fiscale = << >> THEN cf = CfMancante
                 ELSE /\ Len(cf) = Len(f_rec.codice_fiscale)
                      /\ \A i \in 1..Len(cf) :
                            /\ cf[i] = UpperChar(cf[i])
                            /\ LowerChar(cf[i])
                                  = LowerChar(f_rec.codice_fiscale[i])
          /\ \A i \in FileIndexes :
                filename([f_rec EXCEPT !.index = i, !.start_page = i - 1,
                                       !.end_page = i,
                                       !.raw_text = << "x" >>]) = f_name

\* the name of a record without given name, with a lower-case tax code and
\* a surname that has a space, small letters and an apostrophe or accent
C16_Witness ==
    /\ fpc = "done"
    /\ f_rec.nome = << >>
    /\ f_rec.codice_fiscale = CF_r1
    /\ f_rec.cognome = << "D", "'", "A", "B" >>
    /\ f_rec.anno = "2025"
    /\ f_name = << "C", "U", "2", "0", "2", "5", "_", "D", "'", "A", "b",
                   "_" >> \o Sconosciuto \o << "_", "R", "1", ".", "p",
                   "d", "f" >>


\* =====================================================================
\*                   properties of load_anagrafica
\* =====================================================================
\* a cell that holds something: not missing, not blank
HasContent(row, col) ==
    /\ col \in l_cols
    /\ ~row[col].nan
    /\ Strip(row[col].text) # << >>

Identified(row) ==
    \/ HasContent(row, "cognome")
    \/ HasContent(row, "nome")
    \/ HasContent(row, "codice_fiscale")

\* the positions of the rows that identify someone, in order
RECURSIVE IdentifiedFrom(_)
IdentifiedFrom(k) ==
    IF k > Len(l_df) THEN << >>
    ELSE IF Identified(l_df[k]) THEN << k >> \o IdentifiedFrom(k + 1)
    ELSE IdentifiedFrom(k + 1)

\* C13: the rows that give an entry are exactly the rows in which the
\* surname cell, the given-name cell or the tax-code cell holds something;
\* a row whose three cells are all empty or missing gives none, whatever
\* its email cell holds.
C13_EmptyRowsDropped ==
    lpc = "done" => l_kept = IdentifiedFrom(1)


\* =====================================================================
\*                properties of repeated matching runs
\* =====================================================================
\* every list returned so far is the value of the function on the two
\* lists and the threshold of its call, so calls with the same threshold
\* returned equal lists
SameInputsSameResults ==
    /\ \A i \in 1..Len(returned) :
          returned[i].results =
             match_cu_with_anagrafica(cu_records, anagrafica,
                                      returned[i].threshold)
    /\ \A i, j \in 1..Len(returned) :
          returned[i].threshold = returned[j].threshold
             => returned[i].results = returned[j].results

\* C14: no step of a run, and no edit of the email of a returned result,
\* changes the record list or the roster, and every call returns the list
\* determined by (records, roster, threshold) alone, whatever calls and
\* edits came before it.
C14_PureRuns ==
    /\ [][ cu_records' = cu_records /\ anagrafica' = anagrafica ]_vars
    /\ []SameInputsSameResults

\* three calls, the first and third with one threshold and the second with
\* another that gave a different list, and an email edited before the third
C14_Witness ==
    /\ Len(returned) = 3
    /\ returned[1].threshold = returned[3].threshold
    /\ returned[2].threshold # returned[1].threshold
    /\ returned[2].results # returned[1].results
    /\ \E k \in 1..Len(edits) : edits[k] \in { 1, 2 }
    /\ \E i \in 1..Len(cu_records) : returned[1].results[i].status = MATCHED


\* =====================================================================
\*                     properties of the session
\* =====================================================================
\* a result that can be delivered: for a record, with an email
Deliverable(r) == r.status # ANAGRAFICA_UNMATCHED /\ r.email # ""

\* what a run of "Invia tutte" leaves in send_logs, given the results
SentToDeliverableOnly ==
    /\ \A k \in 1..Len(a_send_logs') :
          LET r == a_match_results[a_send_logs'[k].result]
          IN  /\ Deliverable(r)
              /\ r.cu.start_page >= 0
              /\ a_send_logs'[k].to = r.email
    /\ \A i \in 1..Len(a_match_results) :
          Deliverable(a_match_results[i]) =>
             Cardinality({ k \in 1..Len(a_send_logs') :
                             a_send_logs'[k].result = i }) = 1

\* no call of export_single_cu is for a placeholder record
NoSyntheticExport == \A x \in a_exports : x.start_page >= 0

\* C15: a run of "Invia tutte" makes one send attempt for each result that
\* is for a record and has an email, and none for any other result; no
\* export, for the ZIP file or for a mail, is ever made for a placeholder
\* record (start_page = -1).
C15_OnlyDeliverableSent ==
    /\ [][ a_event' = "send" => SentToDeliverableOnly ]_vars
    /\ []NoSyntheticExport

\* after a run of "Invia tutte": two attempts, one of them failed, one to
\* an address typed in for an unmatched record, and none to the roster
\* entry without record although it has an email
C15_Witness ==
    /\ a_event = "send"
    /\ Len(a_send_logs) = 2
    /\ \E k \in 1..2 : a_send_logs[k].status = "error"
    /\ \E k \in 1..2 :
          /\ a_send_logs[k].to = "e9"
          /\ a_match_results[a_send_logs[k].result].status = CU_UNMATCHED
    /\ \E i \in 1..Len(a_match_results) :
          /\ a_match_results[i].status = ANAGRAFICA_UNMATCHED
          /\ a_match_results[i].email # ""

\* C20: whenever there are records, they were parsed from the PDF held in
\* pdf_bytes, and every export takes the pages of a record from the PDF the
\* record was parsed from.
C20_RecordsOfHeldPdf ==
    /\ a_cu_records # << >> => a_parsed_from = a_pdf_bytes
    /\ \A x \in a_exports :
          /\ x.bytes = x.from
          /\ x.end_page < Len(AppDoc(x.bytes))

\* the results a run of "Invia tutte" is to send, by their position
DeliverableResults ==
    { i \in 1..Len(a_match_results) : Deliverable(a_match_results[i]) }

\* the logs of the run that has just ended, with a given status
LogsWith(status) ==
    { k \in 1..Len(a_send_logs') : a_send_logs'[k].status = status }

\* what a run of "Invia tutte" makes of send_logs: the logs of the runs
\* before are gone, there is one log for each result to send, in the order
\* of the results, each either a success or an error
OneLogForEach ==
    /\ Len(a_send_logs') = Cardinality(DeliverableResults)
    /\ \A k \in 1..Len(a_send_logs') :
          /\ a_send_logs'[k].result \in DeliverableResults
          /\ a_send_logs'[k].to = a_match_results[a_send_logs'[k].result].email
          /\ a_send_logs'[k].filename =
                filename(a_match_results[a_send_logs'[k].result].cu)
          /\ a_send_logs'[k].status \in { "success", "error" }
    /\ \A j, k \in 1..Len(a_send_logs') :
          j < k => a_send_logs'[j].result < a_send_logs'[k].result
    /\ Cardinality(LogsWith("success")) + Cardinality(LogsWith("error"))
          = Cardinality(DeliverableResults)

\* C21: a run of "Invia tutte" empties send_logs and then adds one log for
\* each result that has a record and an email, in the order of the results;
\* a send that fails gives a log with status error and the sends after it
\* are still made, so that at the end the successes and the errors together
\* are as many as the results to send.
C21_OneLogPerSend == [][ a_event' = "send" => OneLogForEach ]_vars

\* after the second run of "Invia tutte": two logs, not four, the first
\* send failed and the one after it succeeded
C21_Witness ==
    /\ a_event = "send"
    /\ a_sends = 2
    /\ Len(a_send_logs) = 2
    /\ a_send_logs[1].status = "error"
    /\ a_send_logs[2].status = "success"

\* the button pressed last among "Analizza PDF", "Esegui Matching" and
\* "Conferma Matching"
LastPressed == IF a_recent = << >> THEN "none" ELSE a_recent[Len(a_recent)]

\* emails are sent only while the matching is confirmed
SendOnlyConfirmed == a_sends' # a_sends => a_confirmed /\ a_confirmed'

\* the matching is confirmed only when "Conferma Matching" came after the
\* last matching and the last analysis
ConfirmedIsLatest ==
    a_confirmed =>
       /\ LastPressed = "confirm"
       /\ \E i, j \in 1..Len(a_recent) :
             a_recent[i] = "analyze" /\ a_recent[j] = "match"

\* "Analizza PDF" empties the results, the confirmation and the logs
AnalyzeResets ==
    a_recent' # a_recent /\ LastPressed' = "analyze" =>
       /\ a_match_results' = << >>
       /\ ~a_confirmed'
       /\ a_send_logs' = << >>

\* what the matcher returns for the records held, for each roster the user
\* may have put into the uploader
FreshResults ==
    { match_cu_with_anagrafica(a_cu_records, roster, DefaultThreshold) :
         roster \in AppRosters }

\* "Esegui Matching" leaves nothing of the results before and takes the
\* confirmation back
MatchReplaces ==
    a_recent' # a_recent /\ LastPressed' = "match" =>
       /\ a_match_results' \in FreshResults
       /\ ~a_confirmed'

\* C22: emails are sent only while matching_confirmed is true, and it is
\* true only if "Conferma Matching" was pressed after the last matching and
\* the last analysis: "Analizza PDF" empties match_results, matching_confirmed
\* and send_logs, and "Esegui Matching" puts the newly computed results in
\* the place of the ones before, none of which is kept or merged, and sets
\* matching_confirmed to false.
C22_ConfirmedBeforeSend ==
    /\ [][ SendOnlyConfirmed /\ AnalyzeResets /\ MatchReplaces ]_vars
    /\ []ConfirmedIsLatest

\* the same without what "Esegui Matching" leaves in match_results: the
\* confirmation and the resets alone
ConfirmationGate ==
    /\ [][ SendOnlyConfirmed /\ AnalyzeResets ]_vars
    /\ [][ a_recent' # a_recent /\ LastPressed' = "match" => ~a_confirmed' ]_vars
    /\ []ConfirmedIsLatest

=============================================================================
